---- MODULE Spec2Model ----
(***************************************************************************)
(* Resource handlers of lib-bucket-provisioner                             *)
(* (pkg/provisioner/resourcehandlers.go and the pkg/util variant that      *)
(* follows it in the same source file).                                    *)
(*                                                                         *)
(* One reconciler worker calls the handlers one at a time (pc, op, local). *)
(* Every store call of a handler is one step; between two steps other      *)
(* writers, the garbage collector and the owner of the Claim may act on    *)
(* the store.                                                              *)
(*                                                                         *)
(* Pointers are sequences: <<>> is nil, <<o>> points to the object o.      *)
(* resourceVersion is kept as the flag `fresh`: the worker's copy `local`  *)
(* carries the stored object's resourceVersion exactly as long as nobody   *)
(* has written that object since the copy was taken.                       *)
(***************************************************************************)
EXTENDS Integers, Sequences, FiniteSets, TLC

\* Largest number of condition calls one wait.PollImmediate makes before
\* its retryTimeout has elapsed (retryTimeout / retryInterval of the call).
MaxAttempts == 2

\* ------------------------------------------------------------------------
\* Values
\* ------------------------------------------------------------------------
finalizer == "objectbucket.io/finalizer"

\* a finalizer token owned by some other controller
foreignFinalizer == "example.io/other"

Nil == <<>>

NoErr == "nil"

Phases == {"Pending", "Bound", "Released", "Failed"}

\* the Claim the worker reconciles
ClaimNs == "ns1"

ClaimName == "c1"

Kinds == {"Secret", "ConfigMap", "ObjectBucket", "ObjectBucketClaim"}

\* the zero value of an object of kind k (what &corev1.Secret{} is)
EmptyObj(k) ==
    [kind |-> k, name |-> "", ns |-> "", fins |-> {}, owners |-> {},
     del |-> FALSE, phase |-> "", data |-> {}]

makeOwnerReference(obc) == <<"ObjectBucketClaim", obc.ns, obc.name>>

removeFinalizer(obj) == [obj EXCEPT !.fins = @ \ {finalizer}]

\* Authentication values: an explicit empty one, and one with access keys
EmptyAuth == [keys |-> {}]

KeyAuth ==
    [keys |-> {<<"AWS_ACCESS_KEY_ID", "id">>, <<"AWS_SECRET_ACCESS_KEY", "key">>}]

\* data is a map, kept as its set of <<key, value>> pairs
ToMap(auth) == auth.keys

TheEndpoint ==
    [host |-> "s3.example.com", port |-> 0, region |-> "us",
     subRegion |-> "east", bucketName |-> "b1", ssl |-> TRUE]

FormatBool(b) == IF b THEN "true" ELSE "false"

Itoa(i) == ToString(i)

\* the Spec of a Claim (SSL, BucketName) is kept in its data
ClaimSpec(ssl, bucket) == {<<"SSL", FormatBool(ssl)>>, <<"BucketName", bucket>>}

SpecSSL(obc) == <<"SSL", "true">> \in obc.data

SpecBucketName(obc) ==
    (CHOOSE kv \in obc.data : kv[1] = "BucketName")[2]

\* the Claim as the external caller created it and the controller adopted it
TheClaim ==
    [kind |-> "ObjectBucketClaim", name |-> ClaimName, ns |-> ClaimNs,
     fins |-> {finalizer}, owners |-> {}, del |-> FALSE,
     phase |-> "Pending", data |-> ClaimSpec(TRUE, "b1")]

\* ------------------------------------------------------------------------
\* Resource Synthesizer
\* ------------------------------------------------------------------------
newBucketConfigMap(ep, obc) ==
    IF ep = Nil THEN [val |-> Nil, err |-> "InvalidInput"]
    ELSE IF obc = Nil THEN [val |-> Nil, err |-> "InvalidInput"]
    ELSE [val |-> << [kind |-> "ConfigMap", name |-> obc[1].name,
                      ns |-> obc[1].ns, fins |-> {finalizer},
                      owners |-> {makeOwnerReference(obc[1])},
                      del |-> FALSE, phase |-> "",
                      data |-> {<<"BUCKET_NAME", ep[1].bucketName>>,
                                <<"BUCKET_HOST", ep[1].host>>,
                                <<"BUCKET_PORT", Itoa(ep[1].port)>>,
                                <<"BUCKET_SSL", FormatBool(ep[1].ssl)>>,
                                <<"BUCKET_REGION", ep[1].region>>,
                                <<"BUCKET_SUBREGION", ep[1].subRegion>>}] >>,
          err |-> NoErr]

newCredentialsSecretNilAuthSkipped(obc, auth) ==
    IF obc = Nil THEN [val |-> Nil, err |-> "InvalidInput"]
    ELSE [val |-> << [kind |-> "Secret", name |-> obc[1].name,
                      ns |-> obc[1].ns, fins |-> {finalizer},
                      owners |-> {makeOwnerReference(obc[1])},
                      del |-> FALSE, phase |-> "",
                      data |-> IF auth = Nil THEN {}
                               ELSE ToMap(auth[1])] >>,
          err |-> NoErr]

newCredentialsSecret(obc, auth) ==
    IF obc = Nil THEN [val |-> Nil, err |-> "InvalidInput"]
    ELSE IF auth = Nil THEN [val |-> Nil, err |-> "InvalidInput"]
    ELSE [val |-> << [kind |-> "Secret", name |-> obc[1].name,
                      ns |-> obc[1].ns, fins |-> {finalizer},
                      owners |-> {makeOwnerReference(obc[1])},
                      del |-> FALSE, phase |-> "",
                      data |-> ToMap(auth[1])] >>,
          err |-> NoErr]

\* pkg/util variant
NewCredentialsSecret(obc, auth) ==
    IF obc = Nil THEN [val |-> Nil, err |-> "InvalidInput"]
    ELSE IF auth = Nil THEN [val |-> Nil, err |-> "InvalidInput"]
    ELSE [val |-> << [kind |-> "Secret", name |-> obc[1].name,
                      ns |-> obc[1].ns, fins |-> {finalizer},
                      owners |-> {},
                      del |-> FALSE, phase |-> "",
                      data |-> ToMap(auth[1])] >>,
          err |-> NoErr]

\* path.Clean of a relative path given as its segments: "." is dropped,
\* ".." takes the segment before it away (and stays when there is none)
RECURSIVE CleanSegs(_, _)
CleanSegs(done, todo) ==
    IF todo = <<>> THEN done
    ELSE LET h == Head(todo) IN
         IF h = "." THEN CleanSegs(done, Tail(todo))
         ELSE IF h = ".." /\ done # <<>> /\ done[Len(done)] # ".."
         THEN CleanSegs(SubSeq(done, 1, Len(done) - 1), Tail(todo))
         ELSE CleanSegs(Append(done, h), Tail(todo))

RECURSIVE JoinSegs(_)
JoinSegs(segs) ==
    IF Len(segs) = 1 THEN segs[1]
    ELSE segs[1] \o "/" \o JoinSegs(Tail(segs))

\* path.Join: empty elements are ignored, the rest is joined by "/" and
\* cleaned; "" when every element is empty, "." when nothing is left
pathJoin(elems) ==
    LET given == SelectSeq(elems, LAMBDA e : e # "")
        kept == CleanSegs(<<>>, given)
    IN  IF given = <<>> THEN ""
        ELSE IF kept = <<>> THEN "."
        ELSE JoinSegs(kept)

\* url.Parse rejects a host with a blank in it
urlParseFails(host) == host = "bad host"

\* URL.String writes the path escaped
urlEscape(path) == IF path = "my bucket" THEN "my%20bucket" ELSE path

bucketURLEndpointSSL(ep, obc) ==
    LET scheme == IF ep.ssl THEN "https://" ELSE "http://"
        host == IF ep.port > 0
                THEN scheme \o ep.host \o ":" \o Itoa(ep.port)
                ELSE scheme \o ep.host
        bucketPath == pathJoin(<<ep.region, ep.subRegion, ep.bucketName>>)
    IN  IF urlParseFails(ep.host) THEN [val |-> "", err |-> "MalformedURL"]
        ELSE [val |-> host \o "/" \o urlEscape(bucketPath), err |-> NoErr]

\* the composed connection URL, or the error of url.Parse
bucketURL(ep, obc) ==
    LET scheme == IF SpecSSL(obc) THEN "https://" ELSE "http://"
        host == IF ep.port > 0
                THEN scheme \o ep.host \o ":" \o Itoa(ep.port)
                ELSE scheme \o ep.host
        bucketPath == pathJoin(<<ep.region, ep.subRegion, ep.bucketName>>)
    IN  IF urlParseFails(ep.host) THEN [val |-> "", err |-> "MalformedURL"]
        ELSE [val |-> host \o "/" \o urlEscape(bucketPath), err |-> NoErr]

\* pkg/util variant
NewBucketConfigMap(ep, obc) ==
    IF ep = Nil \/ obc = Nil THEN [val |-> Nil, err |-> "InvalidInput"]
    ELSE LET u == bucketURL(ep[1], obc[1]) IN
         IF u.err # NoErr THEN [val |-> Nil, err |-> u.err]
         ELSE
         [val |-> << [kind |-> "ConfigMap", name |-> obc[1].name,
                      ns |-> obc[1].ns, fins |-> {},
                      owners |-> {},
                      del |-> FALSE, phase |-> "",
                      data |-> {<<"BUCKET_NAME", SpecBucketName(obc[1])>>,
                                <<"BUCKET_HOST", ep[1].host>>,
                                <<"BUCKET_PORT", Itoa(ep[1].port)>>,
                                <<"BUCKET_SSL", FormatBool(ep[1].ssl)>>,
                                <<"BUCKET_REGION", ep[1].region>>,
                                <<"BUCKET_SUBREGION", ep[1].subRegion>>,
                                <<"BUCKET_URL", u.val>>}] >>,
          err |-> NoErr]

\* pkg/util variant: obc-<namespace>-<name>, no finalizer, no owner
NewObjectBucket(obc) ==
    [kind |-> "ObjectBucket", name |-> "obc-" \o obc.ns \o "-" \o obc.name,
     ns |-> "", fins |-> {}, owners |-> {}, del |-> FALSE, phase |-> "",
     data |-> {<<"Connection", "connection">>}]

\* ------------------------------------------------------------------------
\* Resource Store
\* ------------------------------------------------------------------------
Key(k, nm) == <<k, nm>>

KeyOf(o) == <<o.kind, o.name>>

Keys ==
    { Key("Secret", ClaimName), Key("Secret", ""),
      Key("ConfigMap", ClaimName), Key("ConfigMap", ""),
      Key("ObjectBucket", NewObjectBucket(TheClaim).name),
      Key("ObjectBucketClaim", ClaimName) }

Has(s, key) == key \in DOMAIN s /\ s[key] # Nil

\* an object whose deletion was requested stays until its finalizer set is
\* empty, then it is purged
Settle(s, key) ==
    IF Has(s, key) /\ s[key][1].del /\ s[key][1].fins = {}
    THEN [s EXCEPT ![key] = Nil] ELSE s

\* what a typed client hands back next to an error: nil or the zero object
FailVals(k) == {Nil, <<EmptyObj(k)>>}

\* create(object) -> created | AlreadyExists | transient error.
\* A nil object is never accepted; an object without a name is rejected by
\* a validating store and accepted by a store that does not validate.
StoreCreate(s, k, p) ==
    { [err |-> "Transient", val |-> v, st |-> s] : v \in FailVals(k) }
    \cup
    ( IF p = Nil
      THEN { [err |-> "Invalid", val |-> v, st |-> s] : v \in FailVals(k) }
      ELSE LET o == [p[1] EXCEPT !.kind = k, !.del = FALSE,
                                    !.ns = IF k = "ObjectBucket" THEN ""
                                           ELSE ClaimNs]
               key == KeyOf(o)
           IN  ( IF o.name = ""
                 THEN { [err |-> "Invalid", val |-> v, st |-> s]
                          : v \in FailVals(k) }
                 ELSE {} )
               \cup
               ( IF Has(s, key)
                 THEN { [err |-> "AlreadyExists", val |-> v, st |-> s]
                          : v \in FailVals(k) }
                 ELSE { [err |-> NoErr, val |-> <<o>>,
                         st |-> [s EXCEPT ![key] = <<o>>]] } ) )

\* get(kind, name) -> object | NotFound | transient error
StoreGet(s, k, nm) ==
    { [err |-> "Transient", val |-> v] : v \in FailVals(k) }
    \cup
    ( IF Has(s, Key(k, nm))
      THEN { [err |-> NoErr, val |-> s[Key(k, nm)]] }
      ELSE { [err |-> "NotFound", val |-> v] : v \in FailVals(k) } )

\* update(object) -> updated | Conflict | NotFound | transient error.
\* The finalizer set, the ownership links and the data are replaced; the
\* status and the deletion mark are the store's.  isFresh says that the
\* submitted copy carries the stored resourceVersion.
StoreUpdate(s, k, p, isFresh) ==
    { [err |-> "Transient", val |-> v, st |-> s] : v \in FailVals(k) }
    \cup
    ( LET key == Key(k, p[1].name) IN
      IF ~Has(s, key)
      THEN { [err |-> "NotFound", val |-> v, st |-> s] : v \in FailVals(k) }
      ELSE IF ~isFresh
      THEN { [err |-> "Conflict", val |-> v, st |-> s] : v \in FailVals(k) }
      ELSE LET o == [s[key][1] EXCEPT !.fins = p[1].fins,
                                      !.owners = p[1].owners,
                                      !.data = p[1].data]
           IN  { [err |-> NoErr, val |-> <<o>>,
                  st |-> Settle([s EXCEPT ![key] = <<o>>], key)] } )

\* updateStatus(object): only the phase is written
StoreUpdateStatus(s, k, p, isFresh) ==
    { [err |-> "Transient", val |-> v, st |-> s] : v \in FailVals(k) }
    \cup
    ( LET key == Key(k, p[1].name) IN
      IF ~Has(s, key)
      THEN { [err |-> "NotFound", val |-> v, st |-> s] : v \in FailVals(k) }
      ELSE IF ~isFresh
      THEN { [err |-> "Conflict", val |-> v, st |-> s] : v \in FailVals(k) }
      ELSE LET o == [s[key][1] EXCEPT !.phase = p[1].phase]
           IN  { [err |-> NoErr, val |-> <<o>>,
                  st |-> [s EXCEPT ![key] = <<o>>]] } )

\* delete(kind, name) -> ok | NotFound | transient error
StoreDelete(s, k, nm) ==
    { [err |-> "Transient", st |-> s] }
    \cup
    ( LET key == Key(k, nm) IN
      IF ~Has(s, key)
      THEN { [err |-> "NotFound", st |-> s] }
      ELSE { [err |-> NoErr,
              st |-> Settle([s EXCEPT ![key][1].del = TRUE], key)] } )

IsAlreadyExists(err) == err = "AlreadyExists"

IsNotFound(err) == err = "NotFound"

\* ------------------------------------------------------------------------
\* wait.PollImmediate and the condition functions handed to it
\* ------------------------------------------------------------------------
\* One round of wait.PollImmediate after the condition returned c: an error
\* ends the poll with that error, done ends it with nil, otherwise the poll
\* goes on unless retryTimeout has elapsed.
PollImmediate(c, expired) ==
    IF c.err # NoErr THEN [stop |-> TRUE, err |-> c.err]
    ELSE IF c.done THEN [stop |-> TRUE, err |-> NoErr]
    ELSE IF expired THEN [stop |-> TRUE, err |-> "ErrWaitTimeout"]
    ELSE [stop |-> FALSE, err |-> NoErr]

createObjectBucketCondKeepsErr(err) == [done |-> err = NoErr, err |-> err]

createObjectBucketCond(err) ==
    LET e == IF IsAlreadyExists(err) THEN NoErr ELSE err
    IN  [done |-> e = NoErr, err |-> e]

createSecretCondAborts(err) == [done |-> err = NoErr, err |-> err]

createSecretCond(err) ==
    IF err # NoErr
    THEN IF IsAlreadyExists(err) THEN [done |-> TRUE, err |-> err]
         ELSE [done |-> FALSE, err |-> NoErr]
    ELSE [done |-> TRUE, err |-> NoErr]

createConfigMapCondSwallows(err) ==
    LET e == IF IsAlreadyExists(err) THEN NoErr ELSE err
    IN  [done |-> e = NoErr, err |-> NoErr]

createConfigMapCond(err) ==
    IF err # NoErr
    THEN IF IsAlreadyExists(err) THEN [done |-> TRUE, err |-> err]
         ELSE [done |-> FALSE, err |-> NoErr]
    ELSE [done |-> TRUE, err |-> NoErr]

updatePhaseCond(err) == [done |-> err = NoErr, err |-> err]

CreateUntilDefaultTimeoutCond(err) ==
    IF err # NoErr /\ ~IsAlreadyExists(err)
    THEN [done |-> FALSE, err |-> err]
    ELSE [done |-> TRUE, err |-> NoErr]

\* ------------------------------------------------------------------------
\* State
\* ------------------------------------------------------------------------
VARIABLES
    store,      \* the Resource Store: key -> pointer to the stored object
    pc,         \* where the worker is: idle, poll, get, update, delete, done
    op,         \* the handler the worker is in
    arg,        \* the object handed to the handler (or built at its start)
    local,      \* the handler's object variable (secret, cm, ob, result)
    fresh,      \* the copy to be updated carries the stored resourceVersion
    attempts,   \* condition calls made by the running poll
    out,        \* the error of the handler's last store call
    ret,        \* what the handler returned (while pc = "done")
    n,          \* store calls issued by the running handler
    input,      \* the arguments the running handler was called with
    hist        \* history: what has been released / set terminal so far

vars ==
    <<store, pc, op, arg, local, fresh, attempts, out, ret, n, input, hist>>

N0 == [get |-> 0, create |-> 0, update |-> 0, delete |-> 0]

NoRet == [err |-> "none", val |-> Nil, expired |-> FALSE]

Hist0 == [called |-> {}, ok |-> {}, terminal |-> {}]

EmptyStore == [key \in Keys |-> Nil]

ObKey == Key("ObjectBucket", NewObjectBucket(TheClaim).name)

ClaimKey == Key("ObjectBucketClaim", ClaimName)

SecretKey == Key("Secret", ClaimName)

ConfigMapKey == Key("ConfigMap", ClaimName)

KindOf(o) ==
    CASE o \in {"createSecret", "releaseSecret"} -> "Secret"
      [] o \in {"createConfigMap", "releaseConfigMap"} -> "ConfigMap"
      [] o \in {"createObjectBucket", "deleteObjectBucket",
                "updateObjectBucketPhase"} -> "ObjectBucket"
      [] o \in {"releaseOBC", "updateObjectBucketClaimPhase"}
           -> "ObjectBucketClaim"
      [] OTHER -> IF arg = Nil THEN "none" ELSE arg[1].kind

\* the stored object the worker's copy was taken from
CopyKey == IF arg = Nil THEN <<"none", "">> ELSE Key(KindOf(op), arg[1].name)

\* a write by somebody else makes the worker's copy stale
StaleAfter(key) == IF key = CopyKey THEN FALSE ELSE fresh

\* an object created anew starts a new lineage
NewLineage(h, key) ==
    [called |-> h.called \ {key}, ok |-> h.ok \ {key},
     terminal |-> h.terminal \ {key}]

Begin(o, i, a, l, f) ==
    /\ pc = "idle"
    /\ op' = o /\ input' = i /\ arg' = a /\ local' = l /\ fresh' = f
    /\ attempts' = 0 /\ out' = NoErr /\ n' = N0

Finish(e, v, x) ==
    /\ pc' = "done"
    /\ ret' = [err |-> e, val |-> v, expired |-> x]

\* the handler has returned; the worker is free for the next call
Return ==
    /\ pc = "done"
    /\ pc' = "idle" /\ op' = "none" /\ input' = Nil
    /\ arg' = Nil /\ local' = Nil
    /\ fresh' = FALSE /\ attempts' = 0 /\ out' = NoErr /\ n' = N0
    /\ ret' = NoRet
    /\ UNCHANGED <<store, hist>>

\* ------------------------------------------------------------------------
\* Idempotent Create Executor
\* ------------------------------------------------------------------------
\* one condition call of a create poll: submit p, keep what Create returned
CreatePoll(k, p, cond(_)) ==
    \E o \in StoreCreate(store, k, p), expired \in BOOLEAN :
        /\ (attempts + 1 >= MaxAttempts => expired)
        /\ LET r == PollImmediate(cond(o.err), expired) IN
           /\ store' = o.st /\ local' = o.val /\ out' = o.err
           /\ attempts' = attempts + 1
           /\ n' = [n EXCEPT !.create = @ + 1]
           /\ hist' = IF o.err = NoErr THEN NewLineage(hist, KeyOf(o.val[1]))
                      ELSE hist
           /\ IF r.stop
              THEN Finish(r.err, o.val, r.err = "ErrWaitTimeout")
              ELSE pc' = pc /\ ret' = ret
        /\ UNCHANGED <<op, input, arg, fresh>>

createSecret(obc, auth) ==
    LET r == newCredentialsSecret(obc, auth) IN
    /\ Begin("createSecret", <<obc, auth>>, r.val, r.val, FALSE)
    /\ IF r.err # NoErr THEN Finish(r.err, Nil, FALSE)
       ELSE pc' = "poll" /\ ret' = NoRet
    /\ UNCHANGED <<store, hist>>

createSecretPoll ==
    /\ pc = "poll" /\ op = "createSecret"
    /\ CreatePoll("Secret", local, createSecretCond)

createConfigMap(obc, ep) ==
    LET r == newBucketConfigMap(ep, obc) IN
    /\ Begin("createConfigMap", <<obc, ep>>, r.val, r.val, FALSE)
    /\ IF r.err # NoErr THEN Finish(r.err, Nil, FALSE)
       ELSE pc' = "poll" /\ ret' = NoRet
    /\ UNCHANGED <<store, hist>>

createConfigMapPollLastErr ==
    /\ pc = "poll" /\ op = "createConfigMap"
    /\ CreatePoll("ConfigMap", local,
                  LAMBDA e : [done |-> e = NoErr, err |-> e])

createConfigMapPoll ==
    /\ pc = "poll" /\ op = "createConfigMap"
    /\ CreatePoll("ConfigMap", local, createConfigMapCond)

\* ob is submitted on every attempt; result takes what Create returned
createObjectBucket(ob) ==
    /\ Begin("createObjectBucket", <<<<ob>>>>, <<ob>>, Nil, FALSE)
    /\ pc' = "poll" /\ ret' = NoRet
    /\ UNCHANGED <<store, hist>>

createObjectBucketPoll ==
    /\ pc = "poll" /\ op = "createObjectBucket"
    /\ CreatePoll("ObjectBucket", arg, createObjectBucketCond)

\* pkg/util: c.Create(ctx, obj) returns the error only and fills obj in
\* place when it succeeds
CreateUntilDefaultTimeout(obj, hasClient) ==
    /\ Begin("CreateUntilDefaultTimeout", <<obj>>, obj, obj, FALSE)
    /\ IF ~hasClient THEN Finish("InvalidInput", Nil, FALSE)
       ELSE pc' = "poll" /\ ret' = NoRet
    /\ UNCHANGED <<store, hist>>

CreateUntilDefaultTimeoutPoll ==
    /\ pc = "poll" /\ op = "CreateUntilDefaultTimeout"
    /\ \E o \in StoreCreate(store, arg[1].kind, arg), expired \in BOOLEAN :
        /\ (attempts + 1 >= MaxAttempts => expired)
        /\ LET r == PollImmediate(CreateUntilDefaultTimeoutCond(o.err),
                                  expired) IN
           /\ store' = o.st /\ out' = o.err
           /\ local' = IF o.err = NoErr THEN o.val ELSE local
           /\ attempts' = attempts + 1
           /\ n' = [n EXCEPT !.create = @ + 1]
           /\ hist' = IF o.err = NoErr THEN NewLineage(hist, KeyOf(o.val[1]))
                      ELSE hist
           /\ IF r.stop
              THEN Finish(r.err, Nil, r.err = "ErrWaitTimeout")
              ELSE pc' = pc /\ ret' = ret
        /\ UNCHANGED <<op, input, arg, fresh>>

\* ------------------------------------------------------------------------
\* Finalizer-Gated Release
\* ------------------------------------------------------------------------
\* the error a release handler returns for a nil reference
nilRefusedErr == "InvalidInput"

nilSkipErr == NoErr

\* the fetched object as it is submitted to Update
withoutFinalizerSecretSkipped(obj) ==
    IF obj.kind = "Secret" THEN obj ELSE removeFinalizer(obj)

withoutFinalizer(obj) == removeFinalizer(obj)

ReleaseBegin(o, ref) ==
    /\ Begin(o, <<ref>>, ref, Nil, FALSE)
    /\ IF ref = Nil THEN Finish(nilSkipErr, Nil, FALSE)
       ELSE pc' = "get" /\ ret' = NoRet
    /\ UNCHANGED <<store, hist>>

\* Get the latest version and remove the finalizer from it
ReleaseGet(o, wrap) ==
    /\ pc = "get" /\ op = o
    /\ \E g \in StoreGet(store, KindOf(o), arg[1].name) :
        /\ out' = g.err
        /\ n' = [n EXCEPT !.get = @ + 1]
        /\ IF g.err # NoErr
           THEN /\ Finish(wrap \o g.err, Nil, FALSE)
                /\ local' = g.val /\ fresh' = FALSE
           ELSE /\ local' = <<withoutFinalizer(g.val[1])>>
                /\ fresh' = TRUE
                /\ pc' = "update" /\ ret' = ret
    /\ hist' = IF pc' = "done" /\ Has(store, ClaimKey)
               THEN [hist EXCEPT !.called = @ \cup {CopyKey}]
               ELSE hist
    /\ UNCHANGED <<store, op, input, arg, attempts>>

ReleaseUpdateRetriesConflict(o, wrap) ==
    /\ pc = "update" /\ op = o
    /\ \E u \in StoreUpdate(store, KindOf(o), local, fresh) :
        /\ store' = u.st /\ out' = u.err /\ local' = u.val
        /\ n' = [n EXCEPT !.update = @ + 1]
        /\ IF u.err = "Conflict" THEN pc' = "get" /\ ret' = ret
           ELSE Finish(IF u.err # NoErr THEN wrap \o u.err ELSE NoErr,
                       Nil, FALSE)
        /\ hist' = IF Has(store, ClaimKey)
                   THEN [hist EXCEPT !.called = @ \cup {CopyKey},
                           !.ok = IF u.err = NoErr THEN @ \cup {CopyKey}
                                  ELSE @]
                   ELSE hist
    /\ UNCHANGED <<op, input, arg, fresh, attempts>>

ReleaseUpdate(o, wrap) ==
    /\ pc = "update" /\ op = o
    /\ \E u \in StoreUpdate(store, KindOf(o), local, fresh) :
        /\ store' = u.st /\ out' = u.err /\ local' = u.val
        /\ n' = [n EXCEPT !.update = @ + 1]
        /\ Finish(IF u.err # NoErr THEN wrap \o u.err ELSE NoErr, Nil, FALSE)
        /\ hist' = IF Has(store, ClaimKey)
                   THEN [hist EXCEPT !.called = @ \cup {CopyKey},
                           !.ok = IF u.err = NoErr THEN @ \cup {CopyKey}
                                  ELSE @]
                   ELSE hist
    /\ UNCHANGED <<op, input, arg, fresh, attempts>>

releaseConfigMap(cm) == ReleaseBegin("releaseConfigMap", cm)

releaseConfigMapGet == ReleaseGet("releaseConfigMap", "")

releaseConfigMapUpdate == ReleaseUpdate("releaseConfigMap", "")

releaseSecret(sec) == ReleaseBegin("releaseSecret", sec)

releaseSecretGet == ReleaseGet("releaseSecret", "")

releaseSecretUpdate == ReleaseUpdate("releaseSecret", "")

releaseOBC(obc) == ReleaseBegin("releaseOBC", obc)

releaseOBCGet == ReleaseGet("releaseOBC", "unable to Get obc: ")

releaseOBCUpdate == ReleaseUpdate("releaseOBC", "unable to Update obc: ")

\* the finalizer is removed from the caller's ob, which is then updated
\* without a Get; isCur says that ob carries the stored resourceVersion
deleteObjectBucket(ob, isCur) ==
    /\ Begin("deleteObjectBucket", <<ob>>, ob,
             IF ob = Nil THEN Nil ELSE <<withoutFinalizer(ob[1])>>,
             ob # Nil /\ isCur)
    /\ IF ob = Nil THEN Finish(nilSkipErr, Nil, FALSE)
       ELSE pc' = "update" /\ ret' = NoRet
    /\ UNCHANGED <<store, hist>>

deleteObjectBucketUpdateIgnoresErr ==
    /\ pc = "update" /\ op = "deleteObjectBucket"
    /\ \E u \in StoreUpdate(store, "ObjectBucket", local, fresh) :
        /\ store' = u.st /\ out' = u.err /\ local' = local
        /\ n' = [n EXCEPT !.update = @ + 1]
        /\ pc' = "delete" /\ ret' = ret
    /\ UNCHANGED <<op, input, arg, fresh, attempts, hist>>

deleteObjectBucketUpdate ==
    /\ pc = "update" /\ op = "deleteObjectBucket"
    /\ \E u \in StoreUpdate(store, "ObjectBucket", local, fresh) :
        /\ store' = u.st /\ out' = u.err /\ local' = u.val
        /\ n' = [n EXCEPT !.update = @ + 1]
        /\ IF u.err # NoErr THEN Finish(u.err, Nil, FALSE)
           ELSE pc' = "delete" /\ ret' = ret
    /\ UNCHANGED <<op, input, arg, fresh, attempts, hist>>

deleteObjectBucketDeleteSkipped ==
    /\ pc = "delete" /\ op = "deleteObjectBucket"
    /\ Finish(NoErr, Nil, FALSE)
    /\ UNCHANGED <<store, out, n>>
    /\ UNCHANGED <<op, input, arg, local, fresh, attempts, hist>>

deleteObjectBucketDelete ==
    /\ pc = "delete" /\ op = "deleteObjectBucket"
    /\ \E d \in StoreDelete(store, "ObjectBucket", local[1].name) :
        /\ store' = d.st /\ out' = d.err
        /\ n' = [n EXCEPT !.delete = @ + 1]
        /\ IF d.err # NoErr
           THEN IF IsNotFound(d.err) THEN Finish(NoErr, Nil, FALSE)
                ELSE Finish("error deleting ObjectBucket: " \o d.err,
                            Nil, FALSE)
           ELSE Finish(NoErr, Nil, FALSE)
    /\ UNCHANGED <<op, input, arg, local, fresh, attempts, hist>>

\* ------------------------------------------------------------------------
\* Phase Transition Updater
\* ------------------------------------------------------------------------
\* obj.Status.Phase = phase, then the poll submits obj
UpdatePhaseBegin(o, obj, phase, isCur) ==
    /\ Begin(o, <<<<obj>>>>, <<[obj EXCEPT !.phase = phase]>>, Nil, isCur)
    /\ pc' = "poll" /\ ret' = NoRet
    /\ UNCHANGED <<store, hist>>

UpdatePhasePoll(o) ==
    /\ pc = "poll" /\ op = o
    /\ \E u \in StoreUpdateStatus(store, KindOf(o), arg, fresh),
          expired \in BOOLEAN :
        /\ (attempts + 1 >= MaxAttempts => expired)
        /\ LET r == PollImmediate(updatePhaseCond(u.err), expired) IN
           /\ store' = u.st /\ local' = u.val /\ out' = u.err
           /\ attempts' = attempts + 1
           /\ n' = [n EXCEPT !.update = @ + 1]
           /\ hist' = IF u.err = NoErr /\ arg[1].phase \in {"Released", "Failed"}
                      THEN [hist EXCEPT !.terminal = @ \cup {CopyKey}]
                      ELSE hist
           /\ IF r.stop
              THEN Finish(r.err, u.val, r.err = "ErrWaitTimeout")
              ELSE pc' = pc /\ ret' = ret
        /\ UNCHANGED <<op, input, arg, fresh>>

updateObjectBucketClaimPhase(obc, phase, isCur) ==
    UpdatePhaseBegin("updateObjectBucketClaimPhase", obc, phase, isCur)

updateObjectBucketClaimPhasePoll ==
    UpdatePhasePoll("updateObjectBucketClaimPhase")

updateObjectBucketPhase(ob, phase, isCur) ==
    UpdatePhaseBegin("updateObjectBucketPhase", ob, phase, isCur)

updateObjectBucketPhasePoll == UpdatePhasePoll("updateObjectBucketPhase")

\* ------------------------------------------------------------------------
\* The other users of the store
\* ------------------------------------------------------------------------
Running == pc \notin {"done"}

EnvFrame == UNCHANGED <<pc, op, input, arg, local, attempts, out, ret, n>>

\* another writer updates an object (its resourceVersion changes)
ConcurrentWrite ==
    /\ Running /\ fresh /\ Has(store, CopyKey)
    /\ fresh' = FALSE
    /\ UNCHANGED <<store, hist>> /\ EnvFrame

\* another controller puts its own finalizer on the Secret, or takes it off
ForeignFinalizer ==
    /\ Running /\ Has(store, SecretKey)
    /\ LET o == store[SecretKey][1]
           f == IF foreignFinalizer \in o.fins
                THEN o.fins \ {foreignFinalizer}
                ELSE o.fins \cup {foreignFinalizer}
       IN  store' = Settle([store EXCEPT ![SecretKey][1].fins = f], SecretKey)
    /\ fresh' = StaleAfter(SecretKey)
    /\ UNCHANGED hist /\ EnvFrame

\* somebody else deletes the Bucket
ConcurrentDelete ==
    /\ Running /\ Has(store, ObKey)
    /\ store' = Settle([store EXCEPT ![ObKey][1].del = TRUE], ObKey)
    /\ store' # store
    /\ fresh' = StaleAfter(ObKey)
    /\ UNCHANGED hist /\ EnvFrame

\* the external caller deletes the Claim
DeleteClaim ==
    /\ Running /\ Has(store, ClaimKey)
    /\ store' = Settle([store EXCEPT ![ClaimKey][1].del = TRUE], ClaimKey)
    /\ store' # store
    /\ fresh' = StaleAfter(ClaimKey)
    /\ UNCHANGED hist /\ EnvFrame

\* the garbage collector deletes an object owned by a Claim that is gone
GarbageCollect(key) ==
    /\ Running /\ Has(store, key) /\ ~Has(store, ClaimKey)
    /\ makeOwnerReference(TheClaim) \in store[key][1].owners
    /\ store' = Settle([store EXCEPT ![key][1].del = TRUE], key)
    /\ store' # store
    /\ fresh' = StaleAfter(key)
    /\ UNCHANGED hist /\ EnvFrame

\* ------------------------------------------------------------------------
\* The reconciler and the specification
\* ------------------------------------------------------------------------
\* what the reconciler knows of an object it does not hold a current copy of
RefTo(key) ==
    <<[EmptyObj(key[1]) EXCEPT !.name = key[2], !.fins = {finalizer}]>>

\* the copies the reconciler can hold of a stored object: the current one,
\* or one that has been overwritten since (or whose object is gone)
Copies(key) ==
    {[obj |-> RefTo(key), cur |-> FALSE]}
    \cup (IF Has(store, key) THEN {[obj |-> store[key], cur |-> TRUE]} ELSE {})

TheBucket == [NewObjectBucket(TheClaim) EXCEPT !.fins = {finalizer}]

Idle ==
    /\ pc = "idle" /\ op = "none" /\ input = Nil
    /\ arg = Nil /\ local = Nil
    /\ fresh = FALSE /\ attempts = 0 /\ out = NoErr /\ n = N0
    /\ ret = NoRet /\ hist = Hist0

Create ==
    \/ \E obc \in {Nil, <<TheClaim>>}, auth \in {Nil, <<EmptyAuth>>, <<KeyAuth>>} :
           createSecret(obc, auth)
    \/ createSecretPoll
    \/ \E obc \in {Nil, <<TheClaim>>}, ep \in {Nil, <<TheEndpoint>>} :
           createConfigMap(obc, ep)
    \/ createConfigMapPoll
    \/ \E ob \in {NewObjectBucket(TheClaim), TheBucket} : createObjectBucket(ob)
    \/ createObjectBucketPoll
    \/ \E obj \in {<<NewObjectBucket(TheClaim)>>,
                   NewCredentialsSecret(<<TheClaim>>, <<KeyAuth>>).val,
                   NewBucketConfigMap(<<TheEndpoint>>, <<TheClaim>>).val},
          hasClient \in BOOLEAN :
           CreateUntilDefaultTimeout(obj, hasClient)
    \/ CreateUntilDefaultTimeoutPoll

Release ==
    \/ \E cm \in {Nil, RefTo(ConfigMapKey)} : releaseConfigMap(cm)
    \/ releaseConfigMapGet
    \/ releaseConfigMapUpdate
    \/ \E sec \in {Nil, RefTo(SecretKey)} : releaseSecret(sec)
    \/ releaseSecretGet
    \/ releaseSecretUpdate
    \/ \E obc \in {Nil, RefTo(ClaimKey)} : releaseOBC(obc)
    \/ releaseOBCGet
    \/ releaseOBCUpdate
    \/ deleteObjectBucket(Nil, FALSE)
    \/ \E c \in Copies(ObKey) : deleteObjectBucket(c.obj, c.cur)
    \/ deleteObjectBucketUpdate
    \/ deleteObjectBucketDelete

Phase ==
    \/ \E c \in Copies(ClaimKey), phase \in Phases :
           updateObjectBucketClaimPhase(c.obj[1], phase, c.cur)
    \/ updateObjectBucketClaimPhasePoll
    \/ \E c \in Copies(ObKey), phase \in Phases :
           updateObjectBucketPhase(c.obj[1], phase, c.cur)
    \/ updateObjectBucketPhasePoll

Others ==
    \/ ConcurrentWrite
    \/ ForeignFinalizer
    \/ ConcurrentDelete
    \/ DeleteClaim
    \/ \E key \in {SecretKey, ConfigMapKey} : GarbageCollect(key)

\* The creating pass: only the Claim exists.
InitCreate ==
    /\ store = [EmptyStore EXCEPT ![ClaimKey] = <<TheClaim>>]
    /\ Idle

NextCreate ==
    \/ Create
    \/ ConcurrentDelete
    \/ Return

SpecCreate == InitCreate /\ [][NextCreate]_vars

\* The releasing pass: the creating pass has stored the Secret, the
\* ConfigMap and the Bucket of the Claim, and the Claim is Bound.
InitRelease ==
    /\ store = [EmptyStore EXCEPT
          ![ClaimKey] = <<[TheClaim EXCEPT !.phase = "Bound"]>>,
          ![SecretKey] = newCredentialsSecret(<<TheClaim>>, <<KeyAuth>>).val,
          ![ConfigMapKey] = newBucketConfigMap(<<TheEndpoint>>, <<TheClaim>>).val,
          ![ObKey] = <<[TheBucket EXCEPT !.phase = "Bound"]>>]
    /\ Idle

NextRelease == Release \/ Others \/ Return

SpecRelease == InitRelease /\ [][NextRelease]_vars

\* The phase updates of a pass: the Claim and its Bucket are Pending.
InitPhase ==
    /\ store = [EmptyStore EXCEPT
          ![ClaimKey] = <<TheClaim>>,
          ![ObKey] = <<[TheBucket EXCEPT !.phase = "Pending"]>>]
    /\ Idle

NextPhase ==
    \/ Phase
    \/ ConcurrentWrite
    \/ ConcurrentDelete
    \/ DeleteClaim
    \/ Return

SpecPhase == InitPhase /\ [][NextPhase]_vars

\* ------------------------------------------------------------------------
\* Properties
\* ------------------------------------------------------------------------
\* ------------------------------------------------------------------------
\* The synthesizers of pkg/util applied to given Claims and Endpoints
\* ------------------------------------------------------------------------
SynthHosts == {"s3.example.com", "bad host"}

SynthPorts == {-1, 0, 443}

SynthRegions == {"", "us"}

SynthSubRegions == {"", "east"}

SynthBucketNames == {"", "b1", "..", "my bucket"}

SynthEndpoints ==
    [host : SynthHosts, port : SynthPorts, region : SynthRegions,
     subRegion : SynthSubRegions, bucketName : SynthBucketNames,
     ssl : BOOLEAN]

SynthNamespaces == {"a", "a-b"}

SynthNames == {"c", "b-c"}

SynthClaim(ns, name, ssl) ==
    [TheClaim EXCEPT !.ns = ns, !.name = name, !.data = ClaimSpec(ssl, "b1")]

SynthClaims ==
    {SynthClaim(ns, name, ssl) :
        ns \in SynthNamespaces, name \in SynthNames, ssl \in BOOLEAN}

\* a synthesizer call: no store call, the result is returned at once
Synth(o, i, r) ==
    /\ Begin(o, i, r.val, Nil, FALSE)
    /\ Finish(r.err, r.val, FALSE)
    /\ UNCHANGED <<store, hist>>

SynthBucketConfigMap ==
    \E ep \in {Nil} \cup {<<e>> : e \in SynthEndpoints},
       obc \in {Nil} \cup {<<SynthClaim(ClaimNs, ClaimName, ssl)>> :
                              ssl \in BOOLEAN} :
        Synth("NewBucketConfigMap", <<obc, ep>>, NewBucketConfigMap(ep, obc))

\* the Buckets of two Claims: the first is returned, the second is kept
SynthObjectBuckets ==
    \E c1 \in SynthClaims, c2 \in SynthClaims :
        /\ Begin("NewObjectBucket", <<<<c1>>, <<c2>>>>,
                 <<NewObjectBucket(c1)>>, <<NewObjectBucket(c2)>>, FALSE)
        /\ Finish(NoErr, <<NewObjectBucket(c1)>>, FALSE)
        /\ UNCHANGED <<store, hist>>

InitSynth ==
    /\ store = EmptyStore
    /\ Idle

NextSynth ==
    \/ SynthBucketConfigMap
    \/ SynthObjectBuckets
    \/ Return

SpecSynth == InitSynth /\ [][NextSynth]_vars

SubObjectCreates == {"createSecret", "createConfigMap"}

BucketCreates == {"createObjectBucket", "CreateUntilDefaultTimeout"}

ReleaseOps ==
    {"releaseSecret", "releaseConfigMap", "releaseOBC", "deleteObjectBucket"}

PhaseUpdates == {"updateObjectBucketClaimPhase", "updateObjectBucketPhase"}

Retryable(err) == err \notin {NoErr, "AlreadyExists"}

\* C1: createSecret and createConfigMap go on polling after every create
\* error other than AlreadyExists: while the poll runs, the last attempt
\* failed with such an error before the deadline; the call ends only with
\* an accepted attempt (and then returns success), with AlreadyExists, or
\* with the deadline elapsed after a retryable error.
C1_RetryUntilAcceptedOrDeadline ==
    (op \in SubObjectCreates /\ attempts > 0) =>
        /\ pc \in {"poll", "done"}
        /\ pc = "poll" => (Retryable(out) /\ attempts < MaxAttempts)
        /\ pc = "done" =>
              \/ out = NoErr /\ ret.err = NoErr
              \/ out = "AlreadyExists"
              \/ Retryable(out) /\ ret.expired /\ ret.err = "ErrWaitTimeout"

\* a retried create was accepted and the call returned success
C1_Witness ==
    /\ pc = "done" /\ op = "createSecret"
    /\ attempts >= 2 /\ out = NoErr /\ ret.err = NoErr

\* C2 as claimed: a create answered AlreadyExists makes createSecret and
\* createConfigMap return success, not an error.
C2_AlreadyExistsReturnsSuccess ==
    (pc = "done" /\ op \in SubObjectCreates /\ out = "AlreadyExists")
        => ret.err = NoErr

\* C2 amended: a create answered AlreadyExists ends the call at once (no
\* further attempt) and the call returns the AlreadyExists error itself.
C2_AlreadyExistsIsTerminalError ==
    (op \in SubObjectCreates /\ out = "AlreadyExists")
        => (pc = "done" /\ ret.err = "AlreadyExists" /\ ~ret.expired)

\* createConfigMap got AlreadyExists on its first attempt
C2_Witness ==
    /\ pc = "done" /\ op = "createConfigMap"
    /\ attempts = 1 /\ out = "AlreadyExists"

\* C3: a Bucket create against a store that already holds an object of that
\* name, and that answers the create, makes one attempt, returns nil and
\* leaves the store as it was.
C3_BucketCreateIdempotent ==
    [][ ( /\ pc = "poll" /\ op \in BucketCreates
          /\ attempts' = attempts + 1
          /\ Has(store, CopyKey)
          /\ out' # "Transient" )
        => ( /\ pc' = "done" /\ ret'.err = NoErr
             /\ attempts' = 1 /\ n'.create = 1
             /\ store' = store ) ]_vars

\* createObjectBucket was answered AlreadyExists and returned nil
C3_Witness ==
    /\ pc = "done" /\ op = "createObjectBucket"
    /\ out = "AlreadyExists" /\ ret.err = NoErr /\ attempts = 1
    /\ Has(store, ObKey)

\* C4 as claimed: createObjectBucket gives up after a create error other
\* than AlreadyExists only when the deadline has elapsed.
C4_BucketCreateRetries ==
    (pc = "done" /\ op = "createObjectBucket" /\ Retryable(out))
        => (ret.expired /\ ret.err = "ErrWaitTimeout")

\* C5 as claimed: the phase updaters return an error only when the deadline
\* has elapsed without a successful status update.
C5_PhaseUpdateRetries ==
    (pc = "done" /\ op \in PhaseUpdates /\ ret.err # NoErr)
        => (ret.expired /\ ret.err = "ErrWaitTimeout")

DependentKeys == {SecretKey, ConfigMapKey}

C7_BucketGoneIsSuccess ==
    (pc = "done" /\ op = "deleteObjectBucket" /\ out = "NotFound")
        => ret.err = NoErr

\* C8: a release handler called with a nil reference returns success in
\* that very step, has issued no store call and has not changed the store.
C8_NilReleaseIsNoOp ==
    [][ (pc = "idle" /\ op' \in ReleaseOps /\ arg' = Nil)
        => ( /\ pc' = "done" /\ ret'.err = NoErr
             /\ n' = N0 /\ store' = store ) ]_vars

\* releaseSecret(nil) has returned
C8_Witness ==
    /\ pc = "done" /\ op = "releaseSecret" /\ arg = Nil
    /\ ret.err = NoErr /\ n = N0

\* C9 as claimed: every Secret and ConfigMap in the store carries exactly
\* one finalizer and exactly one ownership link, to the Claim.
C9_OneFinalizerOneOwner ==
    \A key \in Keys :
        (key[1] \in {"Secret", "ConfigMap"} /\ Has(store, key))
            => /\ store[key][1].fins = {finalizer}
               /\ store[key][1].owners = {makeOwnerReference(TheClaim)}

\* C10 as claimed: an object whose phase was set to Released or Failed by
\* the phase updater is never Bound afterwards.
C10_PhaseMonotonic ==
    \A key \in hist.terminal :
        Has(store, key) => store[key][1].phase # "Bound"

\* C11 (as stated): a createSecret or createConfigMap call that ends on the
\* deadline returns a failure whose error is the last error the store
\* returned.
C11_LastErrorSurfaced ==
    (pc = "done" /\ op \in SubObjectCreates /\ ret.expired)
        => (ret.err # NoErr /\ ret.err = out)

\* C11 (amended): when every create attempt of a createSecret or
\* createConfigMap call failed with an error other than AlreadyExists, the
\* call ends only on the deadline, returns a failure, and the error it
\* returns is the poll's timeout error, not the store's last error.
C11_DeadlineSurfacesTimeout ==
    (pc = "done" /\ op \in SubObjectCreates /\ n.create > 0 /\ Retryable(out))
        => /\ ret.expired
           /\ ret.err = "ErrWaitTimeout"
           /\ ret.err # out
           /\ attempts = n.create

C11_Witness ==
    /\ pc = "done" /\ op = "createConfigMap"
    /\ attempts > 1 /\ n.create = attempts
    /\ Retryable(out)
    /\ ret.err = "ErrWaitTimeout"

\* C12: createSecret with a nil Claim or a nil Authentication, and
\* createConfigMap with a nil Claim or a nil Endpoint, return an error at
\* once: no store call, no attempt, store untouched. With both inputs given
\* the call goes on to the create poll; an empty Authentication is accepted
\* and the Secret is built with the (empty) data of that Authentication.
C12_InvalidInputFailsAtOnce ==
    [][ (pc = "idle" /\ op' \in SubObjectCreates) =>
          IF input'[1] = Nil \/ input'[2] = Nil
          THEN /\ pc' = "done"
               /\ ret'.err # NoErr /\ ret'.val = Nil
               /\ n' = N0 /\ attempts' = 0
               /\ store' = store
          ELSE /\ pc' = "poll"
               /\ arg' # Nil
               /\ (op' = "createSecret"
                     => arg'[1].data = ToMap(input'[2][1])) ]_vars

C12_Witness ==
    /\ pc = "done" /\ op = "createSecret"
    /\ input[1] # Nil /\ input[2] = Nil
    /\ ret.err = "InvalidInput"
    /\ n = N0

\* the objects carrying a deletion mark
Marked(s) == {key \in Keys : Has(s, key) /\ s[key][1].del}

\* C13: a store call of releaseSecret, releaseConfigMap or releaseOBC is a
\* get or an update, never a delete (nor a create), and puts no deletion
\* mark on any object; a store call of deleteObjectBucket leaves the Secret
\* and the ConfigMap as they are, and a deleteObjectBucket call on a Bucket
\* that returns success has issued exactly one delete, after one update.
C13_OnlyBucketIsDeleted ==
    [][ /\ (n' # n /\ pc # "done"
              /\ op \in {"releaseSecret", "releaseConfigMap", "releaseOBC"})
            => /\ n'.delete = 0 /\ n'.create = 0
               /\ n'.get + n'.update = n.get + n.update + 1
               /\ Marked(store') \subseteq Marked(store)
        /\ (n' # n /\ pc # "done" /\ op = "deleteObjectBucket")
            => /\ store'[SecretKey] = store[SecretKey]
               /\ store'[ConfigMapKey] = store[ConfigMapKey]
        /\ (pc' = "done" /\ op' = "deleteObjectBucket" /\ input'[1] # Nil
              /\ ret'.err = NoErr)
            => (n'.delete = 1 /\ n'.update = 1 /\ n'.get = 0) ]_vars

C13_Witness ==
    /\ pc = "done" /\ op = "releaseSecret" /\ ret.err = NoErr
    /\ n = [get |-> 1, create |-> 0, update |-> 1, delete |-> 0]
    /\ Has(store, SecretKey)
    /\ finalizer \notin store[SecretKey][1].fins

\* C15: every release function, deleteObjectBucket included, fetches the
\* latest stored version before it updates: no update is issued by a release
\* call that has not issued a get.
C15_ReleaseFetchesFirst ==
    (op \in ReleaseOps /\ n.update > 0) => n.get > 0

\* C16: in deleteObjectBucket the delete is issued only after the update
\* that removes the finalizer has succeeded. A failed update ends the call
\* with the update's error, no delete is issued and the store (the Bucket
\* in it) is left as it was.
C16_DeleteOnlyAfterUpdate ==
    [][ /\ (pc = "update" /\ op = "deleteObjectBucket" /\ n' # n)
            => IF out' # NoErr
               THEN /\ pc' = "done" /\ ret'.err = out'
                    /\ n'.delete = 0
                    /\ store' = store
               ELSE pc' = "delete" /\ n'.delete = 0
        /\ (n'.delete > n.delete)
            => (pc = "delete" /\ n.update = 1 /\ out = NoErr) ]_vars

C16_Witness ==
    /\ pc = "done" /\ op = "deleteObjectBucket"
    /\ n.update = 1 /\ n.delete = 0
    /\ out = "Conflict" /\ ret.err = "Conflict"
    /\ Has(store, ObKey)

GetThenUpdate == {"releaseSecret", "releaseConfigMap", "releaseOBC"}

\* C17 (as stated): a release call whose update is refused with Conflict
\* returns that error.
C17_ConflictReturnedAsIs ==
    (pc = "done" /\ op \in GetThenUpdate /\ out = "Conflict")
        => ret.err = out

\* C17 (amended): a release call whose update is refused with Conflict does
\* not retry: it ends at once, after one get and one update, with a
\* failure, and the stored object is left as the concurrent writer wrote it.
\* releaseConfigMap and releaseSecret return the Conflict error itself;
\* releaseOBC returns a new error that only quotes it.
C17_ConflictNotRetried ==
    [][ (pc = "update" /\ op \in GetThenUpdate /\ n' # n
           /\ out' = "Conflict")
          => /\ pc' = "done"
             /\ n' = [get |-> 1, create |-> 0, update |-> 1, delete |-> 0]
             /\ store' = store
             /\ ret'.err = IF op = "releaseOBC"
                           THEN "unable to Update obc: Conflict"
                           ELSE "Conflict" ]_vars

C17_Witness ==
    /\ pc = "done" /\ op = "releaseOBC"
    /\ out = "Conflict"
    /\ ret.err = "unable to Update obc: Conflict"
    /\ n.get = 1 /\ n.update = 1
    /\ Has(store, ClaimKey)
    /\ finalizer \in store[ClaimKey][1].fins

\* C18: within one createSecret or createConfigMap call every attempt
\* submits the object synthesized at the start of the call: whenever the
\* poll is about to submit, the object it holds is the synthesized one.
C18_AttemptsSubmitSynthesized ==
    (pc = "poll" /\ op \in SubObjectCreates) => local = arg

\* scheme://host[:port] as the composition rule writes it
LiteralPrefix(ep, obc) ==
    (IF SpecSSL(obc) THEN "https" ELSE "http") \o "://" \o ep.host
      \o (IF ep.port > 0 THEN ":" \o Itoa(ep.port) ELSE "")

LiteralURL(ep, obc) ==
    LiteralPrefix(ep, obc)
      \o "/" \o ep.region \o "/" \o ep.subRegion \o "/" \o ep.bucketName

\* a path segment that path.Join and URL.String leave as it is
PlainSegment(seg) ==
    /\ seg # ""
    /\ pathJoin(<<"x", seg>>) = "x/" \o seg
    /\ urlEscape(seg) = seg

SynthesizedConfigMap ==
    /\ pc = "done" /\ op = "NewBucketConfigMap"
    /\ input[1] # Nil /\ input[2] # Nil

URLOf(cm) == (CHOOSE kv \in cm.data : kv[1] = "BUCKET_URL")[2]

C19_BucketNameIdentifiesClaim ==
    (pc = "done" /\ op = "NewObjectBucket"
       /\ <<input[1][1].ns, input[1][1].name>>
            # <<input[2][1].ns, input[2][1].name>>)
        => arg[1].name # local[1].name

====
